---- MODULE Spec2Model ----
(***************************************************************************)
(* Model of the vitals page of the sensor dashboard (src/pages/vitals.py): *)
(* the cached read of the latest vitals, the change-tracked partial write, *)
(* the session bookkeeping and the script run of the page.                 *)
(*                                                                         *)
(* Numbers are kept in tenths (97.5 is 975, 125 is 1250), so that float()  *)
(* and int() are different conversions.  A value is a record               *)
(* [t |-> tag, n |-> tenths]; the tags are "num", "none" (None, a missing  *)
(* column), "nan" (a null cell) and "str" (a non-numeric string).          *)
(***************************************************************************)
EXTENDS Integers, FiniteSets, Sequences, TLC

Fields == {"temperature", "systolic", "diastolic", "heart_rate",
           "respiration_rate", "oxygen_saturation"}

Flags == {"temperature", "blood_pressure", "heart_rate",
          "respiration_rate", "oxygen_saturation"}

FlagOf(f) == IF f \in {"systolic", "diastolic"} THEN "blood_pressure" ELSE f

Num(n) == [t |-> "num", n |-> n]
None == [t |-> "none", n |-> 0]
NaN == [t |-> "nan", n |-> 0]
Str == [t |-> "str", n |-> 0]

\* no record: the call did not return
NoRecord == [key \in Fields |-> None]

\* pd.notna(value) and value is not None
NotNa(x) == x.t \notin {"none", "nan"}

CACHE_TTL == 60

DEFAULT_VITALS ==
    [temperature |-> Num(975), systolic |-> Num(1250), diastolic |-> Num(600),
     heart_rate |-> Num(550), respiration_rate |-> Num(120),
     oxygen_saturation |-> Num(950)]

\* float(value) of a number
FloatConv(n) == n

\* int(value) of a number: truncation toward zero
IntConv(n) == IF n >= 0 THEN (n \div 10) * 10 ELSE 0 - (((0 - n) \div 10) * 10)

\* mutant: every field is converted with int()
Conv_int(key, n) == IntConv(n)

Conv(key, n) == IF key = "temperature" THEN FloatConv(n) ELSE IntConv(n)

(***************************************************************************)
(* VitalsRepository.get_latest, the function under the cache decorator.    *)
(* outcome is what run_script('latest_vitals.flux') does: "rows" (a table  *)
(* whose last row is row), "empty" (an empty table), "query_error" (None,  *)
(* the error is logged inside run_script) or "template_missing" (the       *)
(* template is absent and run_script raises).                              *)
(***************************************************************************)
ReadOutcomes == {"rows", "empty", "query_error", "template_missing"}

\* an exception is raised inside the try block: run_script raises, or
\* float()/int() of a non-numeric cell raises ValueError
BodyRaises(outcome, row) ==
    \/ outcome = "template_missing"
    \/ /\ outcome = "rows"
       /\ \E key \in Fields : NotNa(row[key]) /\ row[key].t = "str"

\* mutant: a row that lacks a field is given up as a whole
ExtractRow_all_or_nothing(row) ==
    IF \E key \in Fields : ~NotNa(row[key])
    THEN DEFAULT_VITALS
    ELSE [key \in Fields |-> Num(Conv(key, row[key].n))]

\* the loop over DEFAULT_VITALS.keys() on the last row of the table
ExtractRow(row) ==
    [key \in Fields |->
        IF NotNa(row[key]) THEN Num(Conv(key, row[key].n))
        ELSE DEFAULT_VITALS[key]]

\* the try block: either it raises, or it returns from inside the if, or it
\* falls through to the return of the defaults
try_block(outcome, row) ==
    IF BodyRaises(outcome, row)
    THEN [raised |-> TRUE, returned |-> FALSE, rec |-> DEFAULT_VITALS]
    ELSE IF outcome = "rows"
         THEN [raised |-> FALSE, returned |-> TRUE, rec |-> ExtractRow(row)]
         ELSE [raised |-> FALSE, returned |-> FALSE, rec |-> DEFAULT_VITALS]

\* mutant: no except clause, the exception leaves get_latest
get_latest_body_uncaught(outcome, row) ==
    LET r == try_block(outcome, row) IN
    IF r.raised
    THEN [raised |-> TRUE, rec |-> NoRecord]
    ELSE IF ~r.returned
         THEN [raised |-> FALSE, rec |-> DEFAULT_VITALS]
         ELSE [raised |-> FALSE, rec |-> r.rec]

\* except Exception: st.error(...), then return dict(DEFAULT_VITALS)
get_latest_body(outcome, row) ==
    LET r == try_block(outcome, row) IN
    IF r.raised \/ ~r.returned
    THEN [raised |-> FALSE, rec |-> DEFAULT_VITALS]
    ELSE [raised |-> FALSE, rec |-> r.rec]

(***************************************************************************)
(* VitalsSession._safely_set_vital                                         *)
(***************************************************************************)
\* mutant: no validation of the ranges
safely_set_vital_unchecked(key, value) ==
    IF NotNa(value)
    THEN IF value.t = "str" THEN DEFAULT_VITALS[key]
         ELSE Num(Conv(key, value.n))
    ELSE DEFAULT_VITALS[key]

safely_set_vital(key, value) ==
    IF NotNa(value)
    THEN IF value.t = "str"
         THEN DEFAULT_VITALS[key]
         ELSE LET converted == Conv(key, value.n) IN
              IF key = "temperature" /\ (converted < 800 \/ converted > 1200)
              THEN DEFAULT_VITALS[key]
              ELSE IF key = "heart_rate" /\ (converted < 0 \/ converted > 3000)
                   THEN DEFAULT_VITALS[key]
                   ELSE Num(converted)
    ELSE DEFAULT_VITALS[key]

\* the six _safely_set_vital calls of initialize_if_needed and of reset
SetVitals(rec) == [key \in Fields |-> safely_set_vital(key, rec[key])]

AllFalse == [g \in Flags |-> FALSE]

(***************************************************************************)
(* VitalsRepository._get_changed_vitals and VitalsRepository.save.         *)
(* A point is a function from the written field names to their values.     *)
(***************************************************************************)
\* mutant: the whole record is written as soon as one flag is set
get_changed_vitals_all(vitals_data, flags) ==
    [key \in IF \E g \in Flags : flags[g] THEN Fields ELSE {} |->
        vitals_data[key]]

get_changed_vitals(vitals_data, flags) ==
    [key \in {f \in Fields : flags[FlagOf(f)]} |-> vitals_data[key]]

SaveOutcomes == {"ack", "open_fails", "write_fails"}

NoPoint == [key \in {} |-> None]

\* mutant: no early return, an empty point is written
save_no_early_return(vitals_data, flags, outcome) ==
    LET changed_vitals == get_changed_vitals(vitals_data, flags) IN
    IF outcome = "open_fails"
    THEN [result |-> FALSE, opened |-> FALSE, wrote |-> FALSE,
          acked |-> FALSE, point |-> NoPoint]
    ELSE [result |-> (outcome = "ack"), opened |-> TRUE, wrote |-> TRUE,
          acked |-> (outcome = "ack"), point |-> changed_vitals]

\* mutant: the failure of the write is swallowed and True is returned
save_swallows_failure(vitals_data, flags, outcome) ==
    LET changed_vitals == get_changed_vitals(vitals_data, flags) IN
    IF DOMAIN changed_vitals = {}
    THEN [result |-> TRUE, opened |-> FALSE, wrote |-> FALSE, acked |-> FALSE,
          point |-> NoPoint]
    ELSE [result |-> TRUE, opened |-> (outcome # "open_fails"),
          wrote |-> (outcome # "open_fails"), acked |-> (outcome = "ack"),
          point |-> IF outcome = "open_fails" THEN NoPoint
                    ELSE changed_vitals]

\* outcome is what the endpoint does if a write is attempted
save(vitals_data, flags, outcome) ==
    LET changed_vitals == get_changed_vitals(vitals_data, flags) IN
    IF DOMAIN changed_vitals = {}
    THEN [result |-> TRUE, opened |-> FALSE, wrote |-> FALSE, acked |-> FALSE,
          point |-> NoPoint]
    ELSE IF outcome = "open_fails"
         THEN [result |-> FALSE, opened |-> FALSE, wrote |-> FALSE,
               acked |-> FALSE, point |-> NoPoint]
         ELSE [result |-> (outcome = "ack"), opened |-> TRUE, wrote |-> TRUE,
               acked |-> (outcome = "ack"), point |-> changed_vitals]

\* the latest row of the endpoint after it has stored the point
PointRow(point) ==
    [key \in Fields |-> IF key \in DOMAIN point THEN point[key] ELSE None]

(***************************************************************************)
(* The sliders: render_vital_slider and render_blood_pressure_slider.      *)
(***************************************************************************)
VitalKeys == Fields \ {"systolic", "diastolic"}

SliderMin == [temperature |-> 950, heart_rate |-> 300,
              respiration_rate |-> 80, oxygen_saturation |-> 700]

SliderMax == [temperature |-> 1100, heart_rate |-> 2200,
              respiration_rate |-> 400, oxygen_saturation |-> 1000]

Max(a, b) == IF a >= b THEN a ELSE b
Min(a, b) == IF a <= b THEN a ELSE b

\* mutant: the order of the two pressures is not enforced
RenderVitals_unordered(v) ==
    [key \in Fields |-> IF NotNa(v[key]) THEN v[key] ELSE DEFAULT_VITALS[key]]

\* the session values as the render leaves them: a missing value is replaced
\* by its default, and diastolic >= systolic is replaced by systolic - 20
RenderVitals(v) ==
    LET dia0 == IF NotNa(v["diastolic"]) THEN v["diastolic"]
                ELSE DEFAULT_VITALS["diastolic"]
        sys0 == IF NotNa(v["systolic"]) THEN v["systolic"]
                ELSE DEFAULT_VITALS["systolic"]
        dia1 == IF dia0.n >= sys0.n THEN Num(sys0.n - 200) ELSE dia0
    IN [key \in Fields |->
          IF key = "diastolic" THEN dia1
          ELSE IF key = "systolic" THEN sys0
          ELSE IF NotNa(v[key]) THEN v[key] ELSE DEFAULT_VITALS[key]]

\* the value= argument each slider is created with
SliderDefaults(v) ==
    LET r == RenderVitals(v) IN
    [key \in Fields |->
        IF key \in VitalKeys
        THEN Num(Max(SliderMin[key], Min(SliderMax[key], r[key].n)))
        ELSE r[key]]

\* the fields each slider widget returns
WidgetFields(g) ==
    IF g = "blood_pressure" THEN {"systolic", "diastolic"} ELSE {g}

\* st.slider: a widget created with another value= than at the last run is a
\* new widget and shows that value; otherwise it keeps what the user set
RenderSliders(v, sl, sd) ==
    LET d == SliderDefaults(v) IN
    [key \in Fields |->
        IF \E k \in WidgetFields(FlagOf(key)) : sd[k] # d[k]
        THEN d[key] ELSE sl[key]]

(***************************************************************************)
(* Bounds and the sample data of the environment.                          *)
(***************************************************************************)
TickStep == 30
MaxAge == 60
MaxEvents == 4
MaxThreads == 1

\* @st.cache_data(ttl=60) of get_temperature_data
CHART_CACHE_TTL == 60

\* "if time_since_refresh > 30"
REFRESH_AFTER == 30

RowGood ==
    [temperature |-> Num(986), systolic |-> Num(1200), diastolic |-> Num(800),
     heart_rate |-> Num(720), respiration_rate |-> Num(160),
     oxygen_saturation |-> Num(980)]

\* rows another writer (the sensor device) may leave as the latest row
SampleRows ==
    {RowGood,
     [RowGood EXCEPT !["systolic"] = Str],
     [RowGood EXCEPT !["temperature"] = Num(1300), !["heart_rate"] = Num(250),
                     !["diastolic"] = Num(1300),
                     !["respiration_rate"] = Num(165),
                     !["oxygen_saturation"] = NaN],
     [RowGood EXCEPT !["temperature"] = Num(750),
                     !["heart_rate"] = Num(3500)]}

\* positions the user can drag each slider to
EditValues(g) ==
    IF g = "temperature" THEN {[temperature |-> Num(1012)]}
    ELSE IF g = "blood_pressure"
         THEN {[systolic |-> Num(1300), diastolic |-> Num(900)],
               [systolic |-> Num(1100), diastolic |-> Num(1100)]}
    ELSE IF g = "heart_rate" THEN {[heart_rate |-> Num(650)]}
    ELSE IF g = "respiration_rate" THEN {[respiration_rate |-> Num(180)]}
    ELSE {[oxygen_saturation |-> Num(930)]}

(***************************************************************************)
(* The query template engine: load_script_template and run_script of       *)
(* influxdb/scripts.py (influx/scripts.py has the same two functions).     *)
(* A text is a sequence of characters of a small alphabet: "$", "{", "}",  *)
(* "s" (a character of an identifier) and "-" (any other character).       *)
(***************************************************************************)
Chars == {"$", "{", "}", "s", "-"}

MaxTemplateLen == 5

Templates == UNION {[1..n -> Chars] : n \in 0..MaxTemplateLen}

\* the placeholder names the callers may supply and the values they give
Names == {<<"s">>}
Values == {<<"-">>, <<"$", "{", "s", "}">>}
Mappings == UNION {[D -> Values] : D \in SUBSET Names}

IsId(c) == c = "s"

\* the length of the identifier that starts at position i of t
RECURSIVE IdRun(_, _)
IdRun(t, i) ==
    IF i <= Len(t) /\ IsId(t[i]) THEN 1 + IdRun(t, i + 1) ELSE 0

\* the characters of text, each tagged with where it comes from
Tagged(src, text) == [k \in 1..Len(text) |-> [src |-> src, c |-> text[k]]]

\* string.Template.substitute from position i on: "$$" is an escape,
\* "$name" and "${name}" are placeholders (KeyError when the mapping lacks
\* the name), any other "$" is invalid (ValueError)
\* safe_substitute, which leaves in place what it cannot replace
RECURSIVE SafeSubstitute(_, _, _)
SafeSubstitute(t, i, m) ==
    IF i > Len(t) THEN [err |-> "none", out |-> <<>>]
    ELSE LET n1 == IdRun(t, i + 1)
             n2 == IdRun(t, i + 2)
             step ==
               IF t[i] # "$"
               THEN [err |-> "none", out |-> Tagged("text", <<t[i]>>), next |-> i + 1]
               ELSE IF i + 1 <= Len(t) /\ t[i + 1] = "$"
               THEN [err |-> "none", out |-> Tagged("esc", <<"$">>), next |-> i + 2]
               ELSE IF n1 > 0 /\ SubSeq(t, i + 1, i + n1) \in DOMAIN m
               THEN [err |-> "none",
                     out |-> Tagged("value", m[SubSeq(t, i + 1, i + n1)]),
                     next |-> i + n1 + 1]
               ELSE IF /\ n1 = 0
                       /\ i + 1 <= Len(t) /\ t[i + 1] = "{" /\ n2 > 0
                       /\ i + n2 + 2 <= Len(t) /\ t[i + n2 + 2] = "}"
                       /\ SubSeq(t, i + 2, i + n2 + 1) \in DOMAIN m
               THEN [err |-> "none",
                     out |-> Tagged("value", m[SubSeq(t, i + 2, i + n2 + 1)]),
                     next |-> i + n2 + 3]
               ELSE [err |-> "none", out |-> Tagged("text", <<"$">>), next |-> i + 1]
             rest == SafeSubstitute(t, step.next, m)
         IN [err |-> "none", out |-> step.out \o rest.out]

RECURSIVE Substitute(_, _, _)
Substitute(t, i, m) ==
    IF i > Len(t) THEN [err |-> "none", out |-> <<>>]
    ELSE LET n1 == IdRun(t, i + 1)
             n2 == IdRun(t, i + 2)
             step ==
               IF t[i] # "$"
               THEN [err |-> "none", out |-> Tagged("text", <<t[i]>>), next |-> i + 1]
               ELSE IF i + 1 <= Len(t) /\ t[i + 1] = "$"
               THEN [err |-> "none", out |-> Tagged("esc", <<"$">>), next |-> i + 2]
               ELSE IF n1 > 0
               THEN IF SubSeq(t, i + 1, i + n1) \in DOMAIN m
                    THEN [err |-> "none",
                          out |-> Tagged("value", m[SubSeq(t, i + 1, i + n1)]),
                          next |-> i + n1 + 1]
                    ELSE [err |-> "KeyError", out |-> <<>>, next |-> i]
               ELSE IF /\ i + 1 <= Len(t) /\ t[i + 1] = "{" /\ n2 > 0
                       /\ i + n2 + 2 <= Len(t) /\ t[i + n2 + 2] = "}"
               THEN IF SubSeq(t, i + 2, i + n2 + 1) \in DOMAIN m
                    THEN [err |-> "none",
                          out |-> Tagged("value", m[SubSeq(t, i + 2, i + n2 + 1)]),
                          next |-> i + n2 + 3]
                    ELSE [err |-> "KeyError", out |-> <<>>, next |-> i]
               ELSE [err |-> "ValueError", out |-> <<>>, next |-> i]
         IN IF step.err # "none" THEN [err |-> step.err, out |-> <<>>]
            ELSE LET rest == Substitute(t, step.next, m) IN
                 IF rest.err # "none" THEN rest
                 ELSE [err |-> "none", out |-> step.out \o rest.out]

\* mutant: template.safe_substitute(**kwargs)
substitute_safe(t, m) == SafeSubstitute(t, 1, m)

\* template.substitute(**kwargs)
substitute(t, m) == Substitute(t, 1, m)

\* what load_script_template returns: the text of the file, or None after
\* it has logged that the file cannot be read
NoTemplate == [present |-> FALSE, text |-> <<>>]
load_script_template(file) ==
    IF file.present THEN file ELSE NoTemplate

\* what the endpoint does with a query
QueryOutcomes == {"table", "empty", "error"}

\* run_script: Template(None).substitute raises TypeError; an error of the
\* query is logged and None is returned
run_script(file, m, outcome) ==
    LET template == load_script_template(file) IN
    IF ~template.present
    THEN [raised |-> TRUE, err |-> "TypeError", sent |-> FALSE,
          query |-> <<>>, result |-> "none"]
    ELSE LET script == substitute(template.text, m) IN
         IF script.err # "none"
         THEN [raised |-> TRUE, err |-> script.err, sent |-> FALSE,
               query |-> <<>>, result |-> "none"]
         ELSE [raised |-> FALSE, err |-> "none", sent |-> TRUE,
               query |-> script.out,
               result |-> IF outcome = "error" THEN "none" ELSE outcome]

(***************************************************************************)
(* State.                                                                  *)
(***************************************************************************)
VARIABLES
    loaded,         \* SessionKeys.LOADED is in st.session_state
    vitals,         \* the six session vital values
    changed,        \* the five change flags
    slider,         \* the value each slider widget returns
    sliderDefault,  \* the value= each slider widget was created with
    cache,          \* the st.cache_data entry of get_latest
    db,             \* the latest row of the time-series endpoint
    rerunPending,   \* st.rerun() was called: the script runs again at once
    events,         \* the number of user events so far
    saved,          \* the last point the endpoint acknowledged
    obs,            \* what the last operation did
    tmpl,           \* the template file run_script is called with
    params,         \* the keyword arguments run_script is called with
    sobs,           \* what the last call of run_script did
    ccache,         \* the entry of get_temperature_data in st.cache_data
    lastRefresh,    \* age of st.session_state.last_refresh, -1 when not set
    fg,             \* the run of temperature_history in the script thread
    bg,             \* the threads that run get_temperature_data_async
    lock            \* who computes the entry: 0 nobody, -1 the script
                    \* thread, k the background thread k

pageVars == <<loaded, vitals, changed, slider, sliderDefault, cache, db,
              rerunPending, events, saved, obs>>

scriptVars == <<tmpl, params, sobs>>

chartVars == <<ccache, lastRefresh, fg, bg, lock>>

vars == <<pageVars, scriptVars, chartVars>>

NoVitals == NoRecord

NoCache == [present |-> FALSE, rec |-> DEFAULT_VITALS, age |-> 0]

NoObs ==
    [op |-> "none", reads |-> 0, hit |-> FALSE, outcome |-> "none",
     row |-> NoVitals, rec |-> NoVitals, raised |-> FALSE,
     cacheWasValid |-> FALSE, after |-> "none", edited |-> "none",
     cand |-> NoVitals, flags |-> AllFalse, point |-> NoPoint,
     opened |-> FALSE, wrote |-> FALSE, acked |-> FALSE, result |-> FALSE]

NoParams == [n \in {} |-> <<>>]

NoSobs ==
    [op |-> "none", raised |-> FALSE, err |-> "none", sent |-> FALSE,
     query |-> <<>>, result |-> "none", latest |-> FALSE, crashed |-> FALSE]

\* no call of run_script is under study
ScriptIdle == tmpl = NoTemplate /\ params = NoParams /\ sobs = NoSobs

\* what run_script("temperature_history.flux") returns: a table, an empty
\* table, or None after a query error
Tables == {"t1", "t2"}
ChartResults == Tables \cup {"empty", "none"}

NoChartCache == [present |-> FALSE, val |-> "none", age |-> 0, by |-> "none"]

NoFg ==
    [pc |-> "idle", df |-> "none", src |-> "none", reads |-> 0,
     failed |-> FALSE, waited |-> FALSE, started |-> FALSE, entryAge |-> -1,
     outcome |-> "none"]

NoBg == [k \in 1..MaxThreads |-> "off"]

\* the home page has not been rendered
ChartIdle ==
    /\ ccache = NoChartCache
    /\ lastRefresh = -1
    /\ fg = NoFg
    /\ bg = NoBg
    /\ lock = 0

Init ==
    /\ loaded = FALSE
    /\ vitals = NoVitals
    /\ changed = AllFalse
    /\ slider = NoVitals
    /\ sliderDefault = NoVitals
    /\ cache = NoCache
    /\ db \in SampleRows
    /\ rerunPending = FALSE
    /\ events = 0
    /\ saved = NoPoint
    /\ obs = NoObs
    /\ ScriptIdle
    /\ ChartIdle

\* the cached entry is served: it exists and is younger than the ttl
CacheValid == cache.present /\ cache.age < CACHE_TTL

\* mutant: no cache decorator, every call runs the function
get_latest_uncached(c, outcome, row) ==
    LET b == get_latest_body(outcome, row) IN
    [reads |-> 1, hit |-> FALSE, raised |-> b.raised, rec |-> b.rec,
     cache |-> IF b.raised THEN c
               ELSE [present |-> TRUE, rec |-> b.rec, age |-> 0]]

\* VitalsRepository.get_latest through @st.cache_data(ttl=Config.CACHE_TTL)
get_latest(c, outcome, row) ==
    IF c.present /\ c.age < CACHE_TTL
    THEN [reads |-> 0, hit |-> TRUE, raised |-> FALSE, rec |-> c.rec,
          cache |-> c]
    ELSE LET b == get_latest_body(outcome, row) IN
         [reads |-> 1, hit |-> FALSE, raised |-> b.raised, rec |-> b.rec,
          cache |-> IF b.raised THEN c
                    ELSE [present |-> TRUE, rec |-> b.rec, age |-> 0]]

\* VitalsRepository.get_latest.clear()
cache_clear(c) == NoCache

has_changes == \E g \in Flags : changed[g]

\* a user event: a page view, a slider edit or a button click
UserEvent == events < MaxEvents /\ events' = events + 1

\* what a call of get_latest did, as the observation of operation op
ObsRead(op, g, outcome) ==
    [NoObs EXCEPT !.op = op, !.reads = g.reads, !.hit = g.hit,
                  !.cacheWasValid = CacheValid,
                  !.outcome = IF g.hit THEN "none" ELSE outcome,
                  !.row = IF g.hit \/ outcome # "rows" THEN NoVitals ELSE db,
                  !.rec = g.rec, !.raised = g.raised]

\* mutant: the load is done in every run
initialize_every_run(ld, v, ch, c, outcome, row) ==
    LET g == get_latest(c, outcome, row) IN
    [loaded |-> TRUE, vitals |-> SetVitals(g.rec), changed |-> AllFalse,
     cache |-> g.cache, g |-> g]

\* VitalsSession.initialize_if_needed, the first call of every run: ld, v
\* and ch are the loaded key, the vitals and the flags of the session
initialize_if_needed(ld, v, ch, c, outcome, row) ==
    IF ld
    THEN [loaded |-> TRUE, vitals |-> v, changed |-> ch, cache |-> c,
          g |-> [reads |-> 0, hit |-> FALSE, raised |-> FALSE,
                 rec |-> NoVitals, cache |-> c]]
    ELSE LET g == get_latest(c, outcome, row) IN
         [loaded |-> TRUE, vitals |-> SetVitals(g.rec), changed |-> AllFalse,
          cache |-> g.cache, g |-> g]

\* what the endpoint would answer to a read in a run of a loaded session
LaterRead == "rows"

(***************************************************************************)
(* The script run of the page, one action per event that starts it.        *)
(***************************************************************************)

\* a browser opens (or reloads) the page: a new session, whose first run
\* loads the vitals (initialize_if_needed) and renders the sliders
OpenPage(outcome) ==
    /\ UserEvent
    /\ ~rerunPending
    /\ LET i == initialize_if_needed(FALSE, NoVitals, AllFalse, cache,
                                     outcome, db)
           v == i.vitals
       IN /\ loaded' = i.loaded
          /\ vitals' = RenderVitals(v)
          /\ changed' = i.changed
          /\ slider' = SliderDefaults(v)
          /\ sliderDefault' = SliderDefaults(v)
          /\ cache' = i.cache
          /\ obs' = ObsRead("open", i.g, outcome)
    /\ UNCHANGED <<db, rerunPending, saved>>
    /\ UNCHANGED <<scriptVars, chartVars>>

\* mutant: the callback flags every metric
on_change_all(ch, g) == [k \in Flags |-> TRUE]

\* the on_change callback of the slider whose flag is g
on_change(ch, g) == [ch EXCEPT ![g] = TRUE]

\* the user drags slider g to val: on_change sets the flag, then the script
\* runs (initialize_if_needed does nothing, the sliders are rendered)
Edit(g, val) ==
    /\ UserEvent
    /\ loaded
    /\ ~rerunPending
    /\ \E k \in WidgetFields(g) : slider[k] # val[k]
    /\ LET sl == [key \in Fields |->
                    IF key \in WidgetFields(g) THEN val[key] ELSE slider[key]]
           i == initialize_if_needed(loaded, vitals, on_change(changed, g),
                                     cache, LaterRead, db)
       IN /\ loaded' = i.loaded
          /\ changed' = i.changed
          /\ cache' = i.cache
          /\ vitals' = RenderVitals(i.vitals)
          /\ slider' = RenderSliders(i.vitals, sl, sliderDefault)
          /\ sliderDefault' = SliderDefaults(i.vitals)
          /\ obs' = [NoObs EXCEPT !.op = "edit", !.edited = g,
                                  !.reads = i.g.reads]
    /\ UNCHANGED <<db, rerunPending, saved>>
    /\ UNCHANGED <<scriptVars, chartVars>>

\* mutant: only the fields flagged changed are adopted
update_only_changed(vitals_data) ==
    [vitals |-> [key \in Fields |->
                    IF changed[FlagOf(key)] THEN vitals_data[key]
                    ELSE vitals[key]],
     changed |-> AllFalse]

\* VitalsSession.update_vitals_after_save
update_vitals_after_save(vitals_data) ==
    [vitals |-> [key \in Fields |-> vitals_data[key]], changed |-> AllFalse]

\* mutant: a successful save invalidates the cached entry
cache_after_save_cleared(c, r) == IF r.result THEN cache_clear(c) ELSE c

\* the entry of get_latest after VitalsRepository.save has returned r and
\* main has handled it: neither calls get_latest.clear() or get_latest
cache_after_save(c, r) == c

\* the user clicks Submit Vitals (enabled only with a change flag set): the
\* script runs, renders the sliders, builds the candidate from what they
\* return and saves it; outcome is what the endpoint does with the write
Submit(outcome) ==
    /\ UserEvent
    /\ loaded
    /\ ~rerunPending
    /\ has_changes
    /\ LET i == initialize_if_needed(loaded, vitals, changed, cache,
                                     LaterRead, db)
           v == RenderVitals(i.vitals)
           sl == RenderSliders(i.vitals, slider, sliderDefault)
           vitals_data == [key \in Fields |-> sl[key]]
           r == save(vitals_data, i.changed, outcome)
           u == update_vitals_after_save(vitals_data)
       IN /\ loaded' = i.loaded
          /\ cache' = cache_after_save(i.cache, r)
          /\ vitals' = IF r.result THEN u.vitals ELSE v
          /\ changed' = IF r.result THEN u.changed ELSE i.changed
          /\ slider' = sl
          /\ sliderDefault' = SliderDefaults(i.vitals)
          /\ rerunPending' = r.result
          /\ db' = IF r.acked THEN PointRow(r.point) ELSE db
          /\ saved' = IF r.acked THEN r.point ELSE saved
          /\ obs' = [NoObs EXCEPT !.op = "submit", !.cand = vitals_data,
                                  !.flags = i.changed, !.point = r.point,
                                  !.opened = r.opened, !.wrote = r.wrote,
                                  !.acked = r.acked, !.result = r.result,
                                  !.reads = i.g.reads]
    /\ UNCHANGED <<scriptVars, chartVars>>

\* mutant: the cache is not cleared before the read
reset_without_clear(c, outcome, row) ==
    LET g == get_latest(c, outcome, row) IN
    [g |-> g, vitals |-> SetVitals(g.rec), changed |-> AllFalse]

\* VitalsSession.reset_to_original_values
reset_to_original_values(c, outcome, row) ==
    LET g == get_latest(cache_clear(c), outcome, row) IN
    [g |-> g, vitals |-> SetVitals(g.rec), changed |-> AllFalse]

\* the user clicks Reset (enabled only with a change flag set)
Reset(outcome) ==
    /\ UserEvent
    /\ loaded
    /\ ~rerunPending
    /\ has_changes
    /\ LET i == initialize_if_needed(loaded, vitals, changed, cache,
                                     LaterRead, db)
           r == reset_to_original_values(i.cache, outcome, db)
       IN /\ loaded' = i.loaded
          /\ vitals' = r.vitals
          /\ changed' = r.changed
          /\ cache' = r.g.cache
          /\ obs' = [ObsRead("reset", r.g, outcome) EXCEPT
                        !.reads = i.g.reads + r.g.reads]
          /\ slider' = RenderSliders(i.vitals, slider, sliderDefault)
          /\ sliderDefault' = SliderDefaults(i.vitals)
    /\ rerunPending' = TRUE
    /\ UNCHANGED <<db, saved>>
    /\ UNCHANGED <<scriptVars, chartVars>>

\* the run that st.rerun() starts: no button is clicked in it
Rerun ==
    /\ rerunPending
    /\ LET i == initialize_if_needed(loaded, vitals, changed, cache,
                                     LaterRead, db)
       IN /\ loaded' = i.loaded
          /\ changed' = i.changed
          /\ cache' = i.cache
          /\ vitals' = RenderVitals(i.vitals)
          /\ slider' = RenderSliders(i.vitals, slider, sliderDefault)
          /\ sliderDefault' = SliderDefaults(i.vitals)
          /\ obs' = [obs EXCEPT !.op = "rerun", !.after = obs.op,
                                !.reads = i.g.reads]
    /\ rerunPending' = FALSE
    /\ UNCHANGED <<db, events, saved>>
    /\ UNCHANGED <<scriptVars, chartVars>>

\* time passes: the cached entry ages
Tick ==
    /\ ~rerunPending
    /\ cache.present
    /\ cache.age < MaxAge
    /\ cache' = [cache EXCEPT !.age = Min(cache.age + TickStep, MaxAge)]
    /\ UNCHANGED <<loaded, vitals, changed, slider, sliderDefault, db,
                   rerunPending, events, saved, obs>>
    /\ UNCHANGED <<scriptVars, chartVars>>

\* another writer stores a row at the endpoint
ExternalWrite(row) ==
    /\ ~rerunPending
    /\ db # row
    /\ db' = row
    /\ UNCHANGED <<loaded, vitals, changed, slider, sliderDefault, cache,
                   rerunPending, events, saved, obs>>
    /\ UNCHANGED <<scriptVars, chartVars>>

Next ==
    \/ \E outcome \in ReadOutcomes : OpenPage(outcome)
    \/ \E g \in Flags : \E val \in EditValues(g) : Edit(g, val)
    \/ \E outcome \in SaveOutcomes : Submit(outcome)
    \/ \E outcome \in ReadOutcomes : Reset(outcome)
    \/ Rerun
    \/ Tick
    \/ \E row \in SampleRows : ExternalWrite(row)

Spec == Init /\ [][Next]_vars

(***************************************************************************)
(* VitalsRepository.save called on its own, for every ChangeSet and a set  *)
(* of candidate records.                                                   *)
(***************************************************************************)
Candidates ==
    [temperature : {Num(975), Num(1012)}, systolic : {Num(1250), Num(1100)},
     diastolic : {Num(600), Num(1100)}, heart_rate : {Num(550), Num(650)},
     respiration_rate : {Num(120)}, oxygen_saturation : {Num(950), Num(930)}]

InitRepo ==
    /\ loaded = FALSE
    /\ vitals = NoVitals
    /\ changed \in [Flags -> BOOLEAN]
    /\ slider = NoVitals
    /\ sliderDefault = NoVitals
    /\ cache = NoCache
    /\ db = RowGood
    /\ rerunPending = FALSE
    /\ events = 0
    /\ saved = NoPoint
    /\ obs = NoObs
    /\ ScriptIdle
    /\ ChartIdle

SaveCall(vitals_data, outcome) ==
    /\ LET r == save(vitals_data, changed, outcome) IN
       /\ db' = IF r.acked THEN PointRow(r.point) ELSE db
       /\ saved' = IF r.acked THEN r.point ELSE saved
       /\ obs' = [NoObs EXCEPT !.op = "save", !.cand = vitals_data,
                               !.flags = changed, !.point = r.point,
                               !.opened = r.opened, !.wrote = r.wrote,
                               !.acked = r.acked, !.result = r.result]
    /\ UNCHANGED <<loaded, vitals, changed, slider, sliderDefault, cache,
                   rerunPending, events>>
    /\ UNCHANGED <<scriptVars, chartVars>>

NextRepo ==
    \E vitals_data \in Candidates : \E outcome \in SaveOutcomes :
        SaveCall(vitals_data, outcome)

SpecRepo == InitRepo /\ [][NextRepo]_vars

(***************************************************************************)
(* The load of a session against every row of a grid of cell values.       *)
(***************************************************************************)
AllRows ==
    [temperature : {Num(986), Num(1300), None, Str},
     systolic : {Num(1200), NaN, Str},
     diastolic : {Num(800), Num(1300), None},
     heart_rate : {Num(720), Num(725), Num(3500), NaN, Str},
     respiration_rate : {Num(160), None, Str},
     oxygen_saturation : {Num(980), NaN, Str}]

InitLoad ==
    /\ loaded = FALSE
    /\ vitals = NoVitals
    /\ changed = AllFalse
    /\ slider = NoVitals
    /\ sliderDefault = NoVitals
    /\ cache = NoCache
    /\ db \in AllRows
    /\ rerunPending = FALSE
    /\ events = 0
    /\ saved = NoPoint
    /\ obs = NoObs
    /\ ScriptIdle
    /\ ChartIdle

NextLoad ==
    \/ \E outcome \in ReadOutcomes : OpenPage(outcome)
    \/ Tick

SpecLoad == InitLoad /\ [][NextLoad]_vars

(***************************************************************************)
(* run_script called on its own, for every template and every mapping.     *)
(***************************************************************************)
PageIdle ==
    /\ loaded = FALSE
    /\ vitals = NoVitals
    /\ changed = AllFalse
    /\ slider = NoVitals
    /\ sliderDefault = NoVitals
    /\ cache = NoCache
    /\ db = RowGood
    /\ rerunPending = FALSE
    /\ events = 0
    /\ saved = NoPoint
    /\ obs = NoObs

TemplateFiles ==
    {NoTemplate} \cup {[present |-> TRUE, text |-> t] : t \in Templates}

InitScript ==
    /\ PageIdle
    /\ tmpl \in TemplateFiles
    /\ params \in Mappings
    /\ sobs = NoSobs
    /\ ChartIdle

\* a caller calls run_script(file_name, **kwargs)
RunScript(outcome) ==
    /\ LET r == run_script(tmpl, params, outcome) IN
       sobs' = [NoSobs EXCEPT !.op = "run_script", !.raised = r.raised,
                              !.err = r.err, !.sent = r.sent,
                              !.query = r.query, !.result = r.result]
    /\ UNCHANGED <<tmpl, params>>
    /\ UNCHANGED <<pageVars, chartVars>>

\* get_latest_temperature of influx/scripts.py, which has no try: it
\* indexes the last row of the table it gets (an empty table has none) and
\* stores it; an exception of run_script or of the indexing passes through
get_latest_temperature(file, outcome) ==
    LET r == run_script(file, NoParams, outcome) IN
    [run |-> r,
     latest |-> ~r.raised /\ r.result = "table",
     raised |-> r.raised \/ r.result = "empty"]

\* a run of app.py: the module body calls get_latest_temperature() outside
\* any try, so what it raises ends the run of the page
AppStart(outcome) ==
    /\ LET g == get_latest_temperature(tmpl, outcome) IN
       sobs' = [NoSobs EXCEPT !.op = "app_start", !.raised = g.run.raised,
                              !.err = g.run.err, !.sent = g.run.sent,
                              !.query = g.run.query, !.result = g.run.result,
                              !.latest = g.latest, !.crashed = g.raised]
    /\ UNCHANGED <<tmpl, params>>
    /\ UNCHANGED <<pageVars, chartVars>>

NextScript ==
    \E outcome \in QueryOutcomes : RunScript(outcome) \/ AppStart(outcome)

SpecScript == InitScript /\ [][NextScript]_vars

(***************************************************************************)
(* The temperature chart of the home page: temperature_history in the      *)
(* script thread and get_temperature_data_async in background threads.     *)
(* The template file is present here (SpecScript studies its absence).     *)
(* st.cache_data computes a missing entry under a lock per key: a caller   *)
(* that misses while another computes waits and then looks again.          *)
(***************************************************************************)
InitChart ==
    /\ PageIdle
    /\ ScriptIdle
    /\ ChartIdle

\* the entry is served: it exists and is younger than the ttl
ChartHit == ccache.present /\ ccache.age < CHART_CACHE_TTL

\* lines 66-76: without a non-empty table the render queries by itself
AfterRead(df) == IF df \in {"none", "empty"} THEN "fallback" ELSE "refresh"

\* temperature_history up to the lookup of get_temperature_data()
RenderBegin(pills) ==
    /\ fg.pc = "idle"
    /\ IF ~pills
       THEN fg' = [NoFg EXCEPT !.outcome = "info"] /\ UNCHANGED lock
       ELSE IF ChartHit
       THEN /\ fg' = [NoFg EXCEPT !.pc = AfterRead(ccache.val),
                                  !.df = ccache.val, !.src = "cache"]
            /\ UNCHANGED lock
       ELSE IF lock = 0
       THEN fg' = [NoFg EXCEPT !.pc = "fetch"] /\ lock' = -1
       ELSE fg' = [NoFg EXCEPT !.pc = "blocked", !.waited = TRUE]
            /\ UNCHANGED lock
    /\ UNCHANGED <<ccache, lastRefresh, bg>>
    /\ UNCHANGED <<pageVars, scriptVars>>

\* the script thread gets the lock it waited for and looks again
RenderUnblock ==
    /\ fg.pc = "blocked"
    /\ lock = 0
    /\ IF ChartHit
       THEN /\ fg' = [fg EXCEPT !.pc = AfterRead(ccache.val),
                                !.df = ccache.val, !.src = "cache"]
            /\ UNCHANGED lock
       ELSE fg' = [fg EXCEPT !.pc = "fetch"] /\ lock' = -1
    /\ UNCHANGED <<ccache, lastRefresh, bg>>
    /\ UNCHANGED <<pageVars, scriptVars>>

\* get_temperature_data's body in the script thread: run_script, and the
\* decorator stores what it returned, None included
RenderFetch(r) ==
    /\ fg.pc = "fetch"
    /\ ccache' = [present |-> TRUE, val |-> r, age |-> 0, by |-> "fg"]
    /\ lock' = 0
    /\ fg' = [fg EXCEPT !.pc = AfterRead(r), !.df = r, !.src = "fetched",
                        !.reads = @ + 1, !.failed = (r = "none")]
    /\ UNCHANGED <<lastRefresh, bg>>
    /\ UNCHANGED <<pageVars, scriptVars>>

\* lines 67-76: run_script called directly; None and an empty table end
\* the render
RenderFallback(r) ==
    /\ fg.pc = "fallback"
    /\ fg' = [fg EXCEPT !.pc = IF r \in Tables THEN "refresh" ELSE "idle",
                        !.df = r, !.reads = @ + 1,
                        !.failed = @ \/ (r = "none"),
                        !.outcome = IF r = "none" THEN "error"
                                    ELSE IF r = "empty" THEN "warning"
                                    ELSE "none"]
    /\ UNCHANGED <<ccache, lastRefresh, bg, lock>>
    /\ UNCHANGED <<pageVars, scriptVars>>

\* a background thread that is not running
FreeThread == CHOOSE k \in 1..MaxThreads : bg[k] = "off"

\* lines 82-91 and the drawing of the chart: the thread is started when
\* last_refresh is more than 30 seconds old
RenderRefresh ==
    /\ fg.pc = "refresh"
    /\ LET since == IF lastRefresh = -1 THEN 0 ELSE lastRefresh IN
       IF since > REFRESH_AFTER
       THEN /\ \E k \in 1..MaxThreads : bg[k] = "off"
            /\ lastRefresh' = 0
            /\ bg' = [bg EXCEPT ![FreeThread] = "clear"]
            /\ fg' = [fg EXCEPT !.pc = "idle", !.outcome = "chart",
                                !.started = TRUE,
                                !.entryAge = IF ccache.present
                                             THEN ccache.age ELSE -1]
       ELSE /\ lastRefresh' = since
            /\ fg' = [fg EXCEPT !.pc = "idle", !.outcome = "chart"]
            /\ UNCHANGED bg
    /\ UNCHANGED <<ccache, lock>>
    /\ UNCHANGED <<pageVars, scriptVars>>

\* get_temperature_data_async: get_temperature_data.clear()
BgClear(k) ==
    /\ bg[k] = "clear"
    /\ ccache' = NoChartCache
    /\ bg' = [bg EXCEPT ![k] = "lookup"]
    /\ UNCHANGED <<lastRefresh, fg, lock>>
    /\ UNCHANGED <<pageVars, scriptVars>>

\* get_temperature_data_async: the lookup of get_temperature_data()
BgLookup(k) ==
    /\ bg[k] = "lookup"
    /\ ChartHit \/ lock = 0
    /\ IF ChartHit
       THEN bg' = [bg EXCEPT ![k] = "off"] /\ UNCHANGED lock
       ELSE bg' = [bg EXCEPT ![k] = "fetch"] /\ lock' = k
    /\ UNCHANGED <<ccache, lastRefresh, fg>>
    /\ UNCHANGED <<pageVars, scriptVars>>

\* get_temperature_data's body in the background thread
BgFetch(k, r) ==
    /\ bg[k] = "fetch"
    /\ ccache' = [present |-> TRUE, val |-> r, age |-> 0, by |-> "bg"]
    /\ lock' = 0
    /\ bg' = [bg EXCEPT ![k] = "off"]
    /\ UNCHANGED <<lastRefresh, fg>>
    /\ UNCHANGED <<pageVars, scriptVars>>

\* time passes: the entry and last_refresh age
ChartTick ==
    /\ \/ ccache.present /\ ccache.age < MaxAge
       \/ lastRefresh # -1 /\ lastRefresh < MaxAge
    /\ ccache' = IF ccache.present
                 THEN [ccache EXCEPT !.age = Min(@ + TickStep, MaxAge)]
                 ELSE ccache
    /\ lastRefresh' = IF lastRefresh = -1 THEN -1
                      ELSE Min(lastRefresh + TickStep, MaxAge)
    /\ UNCHANGED <<fg, bg, lock>>
    /\ UNCHANGED <<pageVars, scriptVars>>

NextChart ==
    \/ \E pills \in BOOLEAN : RenderBegin(pills)
    \/ RenderUnblock
    \/ \E r \in ChartResults : RenderFetch(r)
    \/ \E r \in ChartResults : RenderFallback(r)
    \/ RenderRefresh
    \/ \E k \in 1..MaxThreads : BgClear(k)
    \/ \E k \in 1..MaxThreads : BgLookup(k)
    \/ \E k \in 1..MaxThreads, r \in ChartResults : BgFetch(k, r)
    \/ ChartTick

SpecChart == InitChart /\ [][NextChart]_vars

(***************************************************************************)
(* Properties.                                                             *)
(***************************************************************************)

\* the defaults as documented
DocDefaults ==
    [temperature |-> Num(975), systolic |-> Num(1250), diastolic |-> Num(600),
     heart_rate |-> Num(550), respiration_rate |-> Num(120),
     oxygen_saturation |-> Num(950)]

\* the fields whose change flag is set in flags
FlaggedFields(flags) == {f \in Fields : flags[FlagOf(f)]}

\* C1: when save performs a write, the one point it writes has exactly the
\* fields whose change flag is true (systolic and diastolic under the one
\* blood-pressure flag), each with the candidate's value
C1_PointHasExactlyChangedFields ==
    (obs.op = "save" /\ obs.wrote) =>
        /\ DOMAIN obs.point = FlaggedFields(obs.flags)
        /\ \A f \in DOMAIN obs.point : obs.point[f] = obs.cand[f]

C1_Witness ==
    /\ obs.op = "save"
    /\ obs.wrote
    /\ FlaggedFields(obs.flags) = {"temperature"}
    /\ DOMAIN obs.point = {"temperature"}

\* C2: with every change flag false, save opens no client, writes no point,
\* leaves the endpoint as it was and returns True
C2_EmptyChangeSetIsNoOp ==
    [][(obs'.op = "save" /\ obs'.flags = AllFalse) =>
          /\ ~obs'.opened
          /\ ~obs'.wrote
          /\ obs'.point = NoPoint
          /\ obs'.result
          /\ db' = db
          /\ saved' = saved]_vars

C2_Witness ==
    /\ obs.op = "save"
    /\ obs.flags = AllFalse
    /\ obs.result
    /\ obs.cand["temperature"] = Num(1012)

\* C3: a submit's save returns True only if the write was acknowledged; if
\* the write or the opening of the connection fails it returns False and the
\* session vital values, the change flags and the sliders stay as they were
C3_FailedSaveLeavesSession ==
    [][(obs'.op = "submit" /\ events' # events) =>
          /\ obs'.result => obs'.acked
          /\ ~obs'.acked =>
                /\ ~obs'.result
                /\ vitals' = vitals
                /\ changed' = changed
                /\ slider' = slider
                /\ ~rerunPending']_vars

C3_Witness ==
    /\ obs.op = "submit"
    /\ obs.wrote
    /\ ~obs.acked
    /\ ~obs.result
    /\ has_changes

C5_CachedWithinTtl ==
    [][(obs'.op = "open" /\ events' # events
          /\ cache.present /\ cache.age < 60) =>
          /\ obs'.reads = 0
          /\ obs'.rec = cache.rec
          /\ cache' = cache]_vars

C5_Witness ==
    /\ obs.op = "open"
    /\ obs.hit
    /\ obs.reads = 0
    /\ cache.age > 0
    /\ obs.rec # get_latest_body("rows", db).rec

\* the record as the session keeps it: temperature outside [80, 120] and
\* heart rate outside [0, 300] are replaced by their defaults
Validated(rec) ==
    [key \in Fields |->
        IF key = "temperature" /\ (rec[key].n < 800 \/ rec[key].n > 1200)
        THEN DocDefaults[key]
        ELSE IF key = "heart_rate" /\ (rec[key].n < 0 \/ rec[key].n > 3000)
             THEN DocDefaults[key]
             ELSE rec[key]]

\* C6: a reset reads the endpoint afresh whatever the age of the cached
\* entry, stores what it read in the cache, sets the five change flags to
\* false and the session vital values to the validated fresh record
C6_ResetReadsAfresh ==
    (obs.op = "reset") =>
        /\ obs.reads = 1
        /\ ~obs.hit
        /\ obs.rec = get_latest_body(obs.outcome, db).rec
        /\ cache = [present |-> TRUE, rec |-> obs.rec, age |-> 0]
        /\ \A g \in Flags : ~changed[g]
        /\ vitals = Validated(obs.rec)

C6_Witness ==
    /\ obs.op = "reset"
    /\ obs.cacheWasValid
    /\ obs.outcome = "rows"
    /\ obs.reads = 1
    /\ vitals["temperature"] = Num(975)
    /\ obs.rec["temperature"] = Num(1300)

\* a read of the endpoint that found the last saved point as the latest row
ReadBackOfSaved ==
    /\ obs.op \in {"open", "reset"}
    /\ obs.reads = 1
    /\ obs.outcome = "rows"
    /\ DOMAIN saved # {}
    /\ obs.row = PointRow(saved)

\* C7: after a successful save of a non-empty ChangeSet, a get_latest that
\* bypasses the cache and finds the saved point as the latest row returns a
\* record whose changed fields have the saved values
C7_RoundTrip ==
    ReadBackOfSaved => \A key \in DOMAIN saved : obs.rec[key] = saved[key]

C7_Witness ==
    /\ ReadBackOfSaved
    /\ "temperature" \in DOMAIN saved
    /\ saved["temperature"] = Num(1012)
    /\ obs.rec["temperature"] = Num(1012)

\* C8: when the read fails (template missing, query error, empty result)
\* get_latest does not raise and returns the documented defaults
C8_ReadFailureGivesDefaults ==
    (obs.op = "open" /\ obs.reads = 1
        /\ obs.outcome \in {"template_missing", "query_error", "empty"}) =>
        /\ ~obs.raised
        /\ obs.rec = DocDefaults
        /\ cache.present
        /\ cache.rec = DocDefaults

C8_Witness ==
    /\ obs.op = "open"
    /\ obs.reads = 1
    /\ obs.outcome = "template_missing"
    /\ obs.rec = DocDefaults
    /\ db["temperature"] = Num(986)

\* a cell that holds a number of the type of its field
Typed(key, x) == x.t = "num" /\ (key = "temperature" \/ x.n % 10 = 0)

\* C9: when the latest row lacks a field (absent or null) and its other
\* cells hold numbers, get_latest does not raise, gives the lacking field
\* its documented default and every other field the value of the row
C9_MissingFieldGetsDefault ==
    (obs.op = "open" /\ obs.reads = 1 /\ obs.outcome = "rows"
        /\ (\E key \in Fields : ~NotNa(obs.row[key]))
        /\ (\A key \in Fields :
               NotNa(obs.row[key]) => Typed(key, obs.row[key]))) =>
        /\ ~obs.raised
        /\ \A key \in Fields :
              obs.rec[key] = IF NotNa(obs.row[key]) THEN obs.row[key]
                             ELSE DocDefaults[key]

C9_Witness ==
    /\ obs.op = "open"
    /\ obs.reads = 1
    /\ obs.outcome = "rows"
    /\ obs.row = [RowGood EXCEPT !["heart_rate"] = NaN]
    /\ obs.rec = [RowGood EXCEPT !["heart_rate"] = Num(550)]

\* C10: when exactly one cell of the latest row is non-numeric, the loaded
\* record has the default in that field and the values of the row in the
\* other fields
C10_OneBadCellOneDefault ==
    (obs.op = "open" /\ obs.reads = 1 /\ obs.outcome = "rows"
        /\ Cardinality({key \in Fields : obs.row[key].t = "str"}) = 1
        /\ (\A key \in Fields :
               obs.row[key].t # "str" => Typed(key, obs.row[key]))) =>
        \A key \in Fields :
            obs.rec[key] = IF obs.row[key].t = "str" THEN DocDefaults[key]
                           ELSE obs.row[key]

\* a load (the first run of a session) or a reset has just been done
LoadOrReset == obs.op \in {"open", "reset"}

\* C11: after every load and every reset the session temperature is in
\* [80, 120] and the session heart rate in [0, 300]; a record value outside
\* its bound is replaced by the default 97.5 or 55
C11_LoadedValuesInBounds ==
    LoadOrReset =>
        /\ vitals["temperature"].t = "num"
        /\ vitals["temperature"].n >= 800 /\ vitals["temperature"].n <= 1200
        /\ vitals["heart_rate"].t = "num"
        /\ vitals["heart_rate"].n >= 0 /\ vitals["heart_rate"].n <= 3000
        /\ (obs.rec["temperature"].n < 800 \/ obs.rec["temperature"].n > 1200)
              => vitals["temperature"] = Num(975)
        /\ (obs.rec["heart_rate"].n < 0 \/ obs.rec["heart_rate"].n > 3000)
              => vitals["heart_rate"] = Num(550)

C11_Witness ==
    /\ obs.op = "reset"
    /\ obs.rec["temperature"] = Num(750)
    /\ obs.rec["heart_rate"] = Num(3500)
    /\ vitals["temperature"] = Num(975)
    /\ vitals["heart_rate"] = Num(550)

\* the sliders have been rendered after a load or a reset
NormalizedAfterLoad ==
    obs.op = "open" \/ (obs.op = "rerun" /\ obs.after = "reset")

\* C12: once the sliders are rendered after a load or a reset, a record with
\* diastolic >= systolic has left the session diastolic at systolic - 20 and
\* the systolic as loaded; a record with diastolic < systolic is kept
C12_DiastolicClampedBelowSystolic ==
    NormalizedAfterLoad =>
        /\ vitals["systolic"] = obs.rec["systolic"]
        /\ vitals["diastolic"] =
              IF obs.rec["diastolic"].n >= obs.rec["systolic"].n
              THEN Num(obs.rec["systolic"].n - 200)
              ELSE obs.rec["diastolic"]

C12_Witness ==
    /\ obs.op = "rerun"
    /\ obs.after = "reset"
    /\ obs.rec["diastolic"] = Num(1300)
    /\ obs.rec["systolic"] = Num(1200)
    /\ vitals["diastolic"] = Num(1000)
    /\ vitals["systolic"] = Num(1200)

\* C13: the candidate a submit builds from the sliders, and the point it
\* writes when the point has the two pressures, have diastolic < systolic
C13_CandidateDiastolicBelowSystolic ==
    (obs.op = "submit") =>
        /\ obs.cand["diastolic"].n < obs.cand["systolic"].n
        /\ (obs.wrote /\ "diastolic" \in DOMAIN obs.point) =>
              obs.point["diastolic"].n < obs.point["systolic"].n

(***************************************************************************)
(* run_script.                                                             *)
(***************************************************************************)
\* the characters of a tagged text
Flat(q) == [k \in 1..Len(q) |-> q[k].c]

\* the "$" at position i of t is not the second half of a "$$" escape:
\* an even number of "$" stand directly before it
RECURSIVE DollarsBefore(_, _)
DollarsBefore(t, i) ==
    IF i > 1 /\ t[i - 1] = "$" THEN 1 + DollarsBefore(t, i - 1) ELSE 0

\* the name of the placeholder that starts at position i of t, <<>> if none
PlaceholderAt(t, i) ==
    IF t[i] # "$" \/ DollarsBefore(t, i) % 2 # 0 THEN <<>>
    ELSE IF IdRun(t, i + 1) > 0 THEN SubSeq(t, i + 1, i + IdRun(t, i + 1))
    ELSE IF /\ i + 1 <= Len(t) /\ t[i + 1] = "{" /\ IdRun(t, i + 2) > 0
            /\ i + IdRun(t, i + 2) + 2 <= Len(t)
            /\ t[i + IdRun(t, i + 2) + 2] = "}"
         THEN SubSeq(t, i + 2, i + IdRun(t, i + 2) + 1)
    ELSE <<>>

\* t has a placeholder whose name the mapping m lacks
MissingName(t, m) ==
    \E i \in 1..Len(t) :
        PlaceholderAt(t, i) # <<>> /\ PlaceholderAt(t, i) \notin DOMAIN m

\* the text q contains a literal ${name}
HasLiteralPlaceholder(q) ==
    \E i \in 1..Len(q) :
        /\ q[i] = "$" /\ i + 1 <= Len(q) /\ q[i + 1] = "{"
        /\ IdRun(q, i + 2) > 0
        /\ i + IdRun(q, i + 2) + 2 <= Len(q)
        /\ q[i + IdRun(q, i + 2) + 2] = "}"

ExampleTemplate == <<"-", "$", "{", "s", "}">>
ExampleParams == [n \in {<<"s">>} |-> <<"-">>]

\* C14 (as stated): a query that run_script sends never contains a literal
\* ${...}, and a placeholder whose name is missing from the mapping makes
\* run_script fail before anything is sent.
C14_NoLiteralPlaceholderDispatched ==
    (sobs.op = "run_script" /\ tmpl.present) =>
        /\ MissingName(tmpl.text, params) => (sobs.raised /\ ~sobs.sent)
        /\ sobs.sent => ~HasLiteralPlaceholder(Flat(sobs.query))

\* C14 (amended): run_script fails before anything is sent when the template
\* has a placeholder whose name is missing from the mapping; in a query that
\* is sent no "$" of a placeholder is left: every "$" comes from a "$$"
\* escape of the template or from a supplied value; the template
\* "-${s}" with s = "-" is sent as "--".
C14_PlaceholdersResolvedOrFail ==
    (sobs.op = "run_script" /\ tmpl.present) =>
        /\ MissingName(tmpl.text, params) => (sobs.raised /\ ~sobs.sent)
        /\ sobs.sent =>
              \A k \in 1..Len(sobs.query) :
                  sobs.query[k].c = "$" => sobs.query[k].src \in {"esc", "value"}
        /\ (tmpl.text = ExampleTemplate /\ params = ExampleParams) =>
              (sobs.sent /\ Flat(sobs.query) = <<"-", "-">>)

C14_Witness ==
    /\ sobs.op = "run_script"
    /\ tmpl.present /\ tmpl.text = ExampleTemplate /\ params = ExampleParams
    /\ sobs.sent /\ Flat(sobs.query) = <<"-", "-">>

\* C15: when the template file is absent or unreadable, run_script sends no
\* query, raises nothing and hands its caller an absent result, and the run
\* of app.py that calls get_latest_temperature is not ended by an exception.
C15_MissingTemplateIsNonFatal ==
    (sobs.op \in {"run_script", "app_start"} /\ ~tmpl.present) =>
        /\ ~sobs.sent
        /\ ~sobs.raised
        /\ sobs.result = "none"
        /\ ~sobs.crashed

\* C16: within one render a query that failed (run_script returned None) is
\* not tried again: the render reads the endpoint at most once.
C16_NoRetryWithinRender ==
    fg.failed => fg.reads <= 1

\* C17: a render starts the background refresh only when the cached entry
\* is older than the 30 seconds of the staleness threshold.
C17_RefreshOnlyWhenEntryStale ==
    fg.started => fg.entryAge > REFRESH_AFTER

\* C18: a read of the cache in the script thread returns a stored entry or
\* fetches and stores one, and the script thread never waits for a
\* background thread.
C18_ForegroundNeverWaits ==
    /\ fg.pc \in {"fallback", "refresh"} => fg.src \in {"cache", "fetched"}
    /\ fg.src = "fetched" => fg.reads >= 1
    /\ ~fg.waited

\* C19: within a session a change flag that is set stays set through
\* renders, edits and failed saves, and is cleared only by a successful save
\* or a reset; an edit sets the flag of the edited metric and leaves the
\* other four as they were.
C19_FlagsMonotoneBetweenResets ==
    [][/\ \A g \in Flags :
            (changed[g] /\ ~changed'[g]) =>
                /\ events' # events
                /\ \/ obs'.op = "reset"
                   \/ obs'.op = "submit" /\ obs'.result
                   \/ obs'.op = "open"
       /\ (events' # events /\ obs'.op = "edit") =>
            /\ changed'[obs'.edited]
            /\ \A g \in Flags \ {obs'.edited} : changed'[g] = changed[g]]_vars

\* a flag set by an edit is still set after a failed save, next to a flag
\* that no edit has set
C19_Witness ==
    /\ obs.op = "submit" /\ ~obs.result
    /\ \E g, h \in Flags : changed[g] /\ ~changed[h]

\* a run of the page script has just been done
ScriptRun == events' # events \/ (rerunPending /\ ~rerunPending')

\* C20: the first run of a session leaves the loaded key set whether the
\* read gave a row or the defaults; a later run of the session reads nothing
\* in initialize_if_needed and gets from it the vitals and flags the session
\* had: an edit changes no vital and only its own flag, a failed save
\* neither, the run after st.rerun() none but the rendering; only a reset
\* (and the first run) reads the endpoint.
C20_LoadIsOneShot ==
    [][ScriptRun =>
         /\ loaded'
         /\ obs'.reads > 0 => obs'.op \in {"open", "reset"}
         /\ obs'.op \in {"edit", "submit", "rerun"} =>
               /\ obs'.reads = 0
               /\ cache' = cache
         /\ obs'.op = "edit" =>
               /\ vitals' = vitals
               /\ changed' = [changed EXCEPT ![obs'.edited] = TRUE]
         /\ (obs'.op = "submit" /\ ~obs'.result) =>
               (vitals' = vitals /\ changed' = changed)
         /\ obs'.op = "rerun" =>
               (vitals' = RenderVitals(vitals) /\ changed' = changed)]_vars

\* an edit in a loaded session whose cached entry has expired, after a
\* first run that fell back to the defaults
C20_Witness ==
    /\ obs.op = "edit" /\ obs.reads = 0
    /\ loaded
    /\ ~CacheValid
    /\ \A key \in Fields \ {"temperature"} : vitals[key] = DEFAULT_VITALS[key]
    /\ db = RowGood

\* the last operation of the page was a successful save (followed by the
\* run st.rerun() starts)
JustSaved == obs.op = "rerun" /\ obs.after = "submit" /\ obs.result

\* C21: a save, successful or not, leaves the cached entry of get_latest as
\* it was; a get_latest made after a successful save, while that entry is
\* within its time-to-live, reads nothing and returns the entry's record.
C21_SaveLeavesCacheEntry ==
    [][(events' # events) =>
         /\ obs'.op = "submit" => cache' = cache
         /\ (JustSaved /\ CacheValid /\ obs'.op = "open") =>
               /\ obs'.hit /\ obs'.reads = 0
               /\ obs'.rec = cache.rec
               /\ cache' = cache]_vars

\* a session opened after a save of the temperature gets the record cached
\* before the save, while the endpoint holds the saved point
C21_Witness ==
    /\ obs.op = "open" /\ obs.hit /\ obs.reads = 0
    /\ "temperature" \in DOMAIN saved
    /\ db = PointRow(saved)
    /\ obs.rec = cache.rec
    /\ obs.rec["temperature"] # saved["temperature"]
    /\ vitals["temperature"] # saved["temperature"]

====
